---- MODULE Spec2Model ----
(***************************************************************************)
(* Model of src/plugins/kbd.c (libblockdev "kbd" plugin): zRAM device      *)
(* creation/destruction through the zram kernel module and sysfs, and the  *)
(* bcache create/attach/detach/destroy protocol.                           *)
(*                                                                         *)
(* C strings are modelled as sequences of one-character strings so that    *)
(* prefix stripping, strchr/strrchr walking, number formatting and regex   *)
(* matching are computed, not assumed.  The kernel (module state, sysfs    *)
(* files, symlinks) is the environment; every call into it records an      *)
(* event in `log`, which is reset at the start of each public call.        *)
(***************************************************************************)
EXTENDS Integers, Sequences, FiniteSets, TLC

(***************************************************************************)
(* Bounds of the model.                                                    *)
(***************************************************************************)
MaxDevices == 2

SizeVals == {10, 20}

StreamVals == {1, 2}

(***************************************************************************)
(* Characters and C-string helpers.                                        *)
(***************************************************************************)
DigitChars == <<"0", "1", "2", "3", "4", "5", "6", "7", "8", "9">>

RECURSIVE U64Str(_)
\* printf ("%" G_GUINT64_FORMAT, n)
U64Str(n) ==
    IF n < 10 THEN <<DigitChars[n + 1]>>
    ELSE U64Str(n \div 10) \o <<DigitChars[(n % 10) + 1]>>

DigitVal(c) == CHOOSE d \in 0..9 : DigitChars[d + 1] = c

IsDigit(c) == \E d \in 0..9 : DigitChars[d + 1] = c

RECURSIVE ParseU64(_)
\* the kernel's reading of a decimal attribute value; -1 when malformed
ParseU64(s) ==
    IF s = <<>> THEN -1
    ELSE IF ~IsDigit(s[Len(s)]) THEN -1
    ELSE IF Len(s) = 1 THEN DigitVal(s[1])
    ELSE LET hi == ParseU64(SubSeq(s, 1, Len(s) - 1))
         IN  IF hi < 0 THEN -1 ELSE hi * 10 + DigitVal(s[Len(s)])

\* g_str_has_prefix (s, p)
HasPrefix(s, p) == Len(s) >= Len(p) /\ SubSeq(s, 1, Len(p)) = p

HasSuffix(s, p) == Len(s) >= Len(p) /\ SubSeq(s, Len(s) - Len(p) + 1, Len(s)) = p

\* s + n (pointer arithmetic on a C string)
Skip(s, n) == SubSeq(s, n + 1, Len(s))

\* strchr (s, c): index of the first c in s, 0 when there is none (NULL)
StrChr(s, c) ==
    IF \E k \in 1..Len(s) : s[k] = c
    THEN CHOOSE k \in 1..Len(s) : s[k] = c /\ \A j \in 1..(k - 1) : s[j] # c
    ELSE 0

\* the first c taken instead of the last
StrRChr_First(s, c) == StrChr(s, c)

\* strrchr (s, c): index of the last c in s, 0 when there is none (NULL)
StrRChr(s, c) ==
    IF \E k \in 1..Len(s) : s[k] = c
    THEN CHOOSE k \in 1..Len(s) : s[k] = c /\ \A j \in (k + 1)..Len(s) : s[j] # c
    ELSE 0

(***************************************************************************)
(* String literals used by the code.                                       *)
(***************************************************************************)
S_num_devices == <<"n", "u", "m", "_", "d", "e", "v", "i", "c", "e", "s", "=">>

S_sys_block_zram == <<"/", "s", "y", "s", "/", "b", "l", "o", "c", "k", "/", "z", "r", "a", "m">>

S_max_comp_streams == <<"/", "m", "a", "x", "_", "c", "o", "m", "p", "_", "s", "t", "r", "e", "a", "m", "s">>

S_disksize == <<"/", "d", "i", "s", "k", "s", "i", "z", "e">>

S_dev == <<"/", "d", "e", "v", "/">>

S_sys_block == <<"/", "s", "y", "s", "/", "b", "l", "o", "c", "k", "/">>

S_bcache_attach == <<"/", "b", "c", "a", "c", "h", "e", "/", "a", "t", "t", "a", "c", "h">>

S_bcache_cache == <<"/", "b", "c", "a", "c", "h", "e", "/", "c", "a", "c", "h", "e">>

S_bcache_detach == <<"/", "b", "c", "a", "c", "h", "e", "/", "d", "e", "t", "a", "c", "h">>

S_bcache_stop == <<"/", "b", "c", "a", "c", "h", "e", "/", "s", "t", "o", "p">>

S_sys_fs_bcache == <<"/", "s", "y", "s", "/", "f", "s", "/", "b", "c", "a", "c", "h", "e", "/">>

S_stop == <<"/", "s", "t", "o", "p">>

S_register == <<"/", "s", "y", "s", "/", "f", "s", "/", "b", "c", "a", "c", "h", "e", "/", "r", "e", "g", "i", "s", "t", "e", "r">>

S_slaves == <<"/", "s", "l", "a", "v", "e", "s", "/">>

S_one == <<"1">>

S_Set_UUID == <<"S", "e", "t", " ", "U", "U", "I", "D", ":">>

S_bcache == <<"b", "c", "a", "c", "h", "e">>

(***************************************************************************)
(* GError.                                                                 *)
(***************************************************************************)
NoError == [domain |-> "none", code |-> "none", msg |-> <<>>]

Piece(text, a) == [text |-> text, args |-> a]

\* g_set_error: a GError already set is kept (GLib warns and does not overwrite)
GSetError(err, domain, code, piece) ==
    IF err = NoError THEN [domain |-> domain, code |-> code, msg |-> <<piece>>]
    ELSE err

\* g_prefix_error: no-op when no error is set
GPrefixError(err, piece) ==
    IF err = NoError THEN err ELSE [err EXCEPT !.msg = <<piece>> \o @]

\* g_error_matches
GErrorMatches(err, domain, code) == err.domain = domain /\ err.code = code

BD_KBD_ERROR == "BD_KBD_ERROR"

G_FILE_ERROR == "G_FILE_ERROR"

G_IO_CHANNEL_ERROR == "G_IO_CHANNEL_ERROR"

BD_UTILS_EXEC_ERROR == "BD_UTILS_EXEC_ERROR"

VARIABLES
    pc,             \* position of the (single) caller inside the running operation
    op,             \* public operation being / last executed
    zargs,          \* arguments of bd_kbd_zram_create_devices
    opts,           \* zram_create_devices: local opts
    i,              \* zram_create_devices: local loop index
    entry,          \* zram module state found by the running zram_create_devices call
    success,        \* local success of the running function
    error,          \* *error of the running public call
    ret,            \* return value of the last finished call: "none", "TRUE", "FALSE"
    log,            \* events of the running / last call, in program order
    bargs,          \* arguments of the bcache operations
    bcache_device,  \* bcache_destroy: parameter bcache_device after the prefix strip
    f_dev,          \* bcache_attach / bcache_detach: parameter bcache_device (callee frame)
    f_uuid,         \* bcache_attach: parameter c_set_uuid; bcache_detach: local uuid
    retpc,          \* where the running attach / detach returns to
    set_uuid,       \* bcache_create: local set_uuid
    dev_name,       \* bcache_create: local dev_name
    c_set_uuid,     \* bcache_destroy: local c_set_uuid
    prev,           \* the public call that finished before the running one started
    out,            \* out-parameter filled by the last call (*bcache_device, *c_set_uuid)
    zramLoaded,     \* kernel: is the zram module loaded
    zramDev,        \* kernel: zram devices 0..N-1 as a sequence of attribute records
    bdevs,          \* kernel: registered bcache devices [name, slave, cache]
    csets           \* kernel: cache sets present under /sys/fs/bcache/

vars == <<pc, op, zargs, opts, i, entry, success, error, ret, log, bargs, bcache_device,
          f_dev, f_uuid, retpc, set_uuid, dev_name, c_set_uuid, out, prev,
          zramLoaded, zramDev, bdevs, csets>>

kzram == <<zramLoaded, zramDev>>

kbcache == <<bdevs, csets>>

zlocals == <<zargs, opts, i, entry>>

blocals == <<bargs, bcache_device, f_dev, f_uuid, retpc, set_uuid, dev_name, c_set_uuid, out>>

Ev(kind, path, value, res) == [kind |-> kind, path |-> path, value |-> value, res |-> res]

BoolStr(b) == IF b THEN "TRUE" ELSE "FALSE"

NoOut == [set |-> FALSE, val |-> <<>>]

(***************************************************************************)
(* Module loader.  The outcome r is what libkmod / the kernel answers.     *)
(***************************************************************************)
LoadOutcomes == {"ctx_fail", "name_fail", "no_path", "insert_fail", "ok"}

UnloadOutcomes == {"ctx_fail", "list_fail", "not_found", "remove_fail", "ok"}

\* init_module on a loaded module fails (EEXIST); otherwise it may fail or succeed
KernelLoadPossible(r) == r = "ok" => ~zramLoaded

\* the loaded-module list decides between "not loaded" and the removal itself
KernelUnloadPossible(r) ==
    /\ r = "not_found" => ~zramLoaded
    /\ r \in {"remove_fail", "ok"} => zramLoaded

load_kernel_module(r, err, module_name, options) ==
    [success |-> r = "ok",
     error |->
        CASE r = "ctx_fail" ->
                GSetError(err, BD_KBD_ERROR, "KMOD_INIT_FAIL",
                          Piece("Failed to initialize kmod context", <<>>))
          [] r = "name_fail" ->
                GSetError(err, BD_KBD_ERROR, "MODULE_FAIL",
                          Piece("Failed to get the module: ", <<>>))
          [] r = "no_path" ->
                GSetError(err, BD_KBD_ERROR, "MODULE_NOEXIST",
                          Piece("Module doesn't exist", <<module_name>>))
          [] r = "insert_fail" ->
                GSetError(err, BD_KBD_ERROR, "MODULE_FAIL",
                          Piece("Failed to load the module with options", <<module_name, options>>))
          [] OTHER -> err]

unload_kernel_module(r, err, module_name) ==
    [success |-> r = "ok",
     error |->
        CASE r = "ctx_fail" ->
                GSetError(err, BD_KBD_ERROR, "KMOD_INIT_FAIL",
                          Piece("Failed to initialize kmod context", <<>>))
          [] r = "list_fail" ->
                GSetError(err, BD_KBD_ERROR, "MODULE_FAIL",
                          Piece("Failed to get the module: ", <<>>))
          [] r = "not_found" ->
                GSetError(err, BD_KBD_ERROR, "MODULE_NOEXIST",
                          Piece("Module is not loaded", <<module_name>>))
          [] r = "remove_fail" ->
                GSetError(err, BD_KBD_ERROR, "MODULE_FAIL",
                          Piece("Failed to unload the module", <<module_name>>))
          [] OTHER -> err]

S_zram == <<"z", "r", "a", "m">>

FreshZram == [max_comp_streams |-> 0, disksize |-> 0]

\* the zram module creates num_devices devices zram0 .. zram<N-1> when inserted
KernelInsertZram(options) ==
    LET n == IF HasPrefix(options, S_num_devices)
             THEN ParseU64(Skip(options, Len(S_num_devices)))
             ELSE 1
    IN  [j \in 1..n |-> FreshZram]

(***************************************************************************)
(* Sysfs writer.                                                           *)
(***************************************************************************)
EchoOutcomes == {"open_fail", "write_fail", "flush_fail", "ok"}

echo_str_to_file(r, err, str, file_path) ==
    [success |-> r = "ok",
     error |->
        CASE r = "open_fail" ->
                GPrefixError(GSetError(err, G_FILE_ERROR, "errno", Piece("open", <<file_path>>)),
                             Piece("Failed to write to file: ", <<str, file_path>>))
          [] r = "write_fail" ->
                GPrefixError(GSetError(err, G_IO_CHANNEL_ERROR, "errno", Piece("write", <<>>)),
                             Piece("Failed to write to file: ", <<str, file_path>>))
          [] r = "flush_fail" ->
                GPrefixError(GSetError(err, G_IO_CHANNEL_ERROR, "errno", Piece("flush", <<>>)),
                             Piece("Failed to flush and close the file: ", <<file_path>>))
          [] OTHER -> err]

\* kernel name of a zram attribute file
ZramNode(j, attr) == S_sys_block_zram \o U64Str(j) \o attr

ZramFileExists(path) ==
    /\ zramLoaded
    /\ \E j \in 0..(Len(zramDev) - 1) :
          path \in {ZramNode(j, S_max_comp_streams), ZramNode(j, S_disksize)}

\* a sysfs file cannot be created by opening it; the kernel only accepts a number
KernelZramWritePossible(r, str, path) ==
    /\ ~ZramFileExists(path) => r = "open_fail"
    /\ r = "ok" => ParseU64(str) >= 0

\* what a successful store does to the zram devices
KernelZramStore(str, path) ==
    [j \in 1..Len(zramDev) |->
        IF path = ZramNode(j - 1, S_max_comp_streams)
        THEN [zramDev[j] EXCEPT !.max_comp_streams = ParseU64(str)]
        ELSE IF path = ZramNode(j - 1, S_disksize)
        THEN [zramDev[j] EXCEPT !.disksize = ParseU64(str)]
        ELSE zramDev[j]]

(***************************************************************************)
(* bd_kbd_zram_create_devices                                              *)
(***************************************************************************)
\* arguments handed in by the caller: arrays of num_devices elements, nstreams
\* possibly NULL (nstreams_given = FALSE)
ZramArgs ==
    UNION { UNION { { [num_devices |-> n, sizes |-> sz, nstreams_given |-> TRUE, nstreams |-> ns] :
                        ns \in [1..n -> StreamVals] }
                    \cup { [num_devices |-> n, sizes |-> sz, nstreams_given |-> FALSE,
                            nstreams |-> <<>>] } :
                    sz \in [1..n -> SizeVals] } :
            n \in 0..MaxDevices }

\* the compression-streams loop left out
AfterLoad_NoStreams(a) ==
    IF 0 < a.num_devices THEN "zc_sizes" ELSE "done"

\* where control goes once the module is loaded (lines 215-216, 230, 243)
AfterLoad(a) ==
    IF a.nstreams_given /\ 0 < a.num_devices THEN "zc_streams"
    ELSE IF 0 < a.num_devices THEN "zc_sizes"
    ELSE "done"

\* the error compared with the wrong kind
FallbackWanted_WrongKind(res) ==
    ~res.success /\ GErrorMatches(res.error, BD_KBD_ERROR, "MODULE_NOEXIST")

\* the kind of the error not looked at
FallbackWanted_AnyFailure(res) == ~res.success

\* line 193: the load failed in a way that may mean "already loaded"
FallbackWanted(res) ==
    ~res.success /\ GErrorMatches(res.error, BD_KBD_ERROR, "MODULE_FAIL")

\* the failure of a stream write not acted on
StreamsNextPc_NoAbort(ok, idx, a) ==
    IF idx + 1 < a.num_devices THEN "zc_streams" ELSE "zc_sizes"

\* lines 216, 222-227: where control goes after the stream write of index idx
StreamsNextPc(ok, idx, a) ==
    IF ~ok THEN "done"
    ELSE IF idx + 1 < a.num_devices THEN "zc_streams"
    ELSE "zc_sizes"

\* the failure of a size write not acted on
SizesNextPc_NoAbort(ok, idx, a) ==
    IF idx + 1 < a.num_devices THEN "zc_sizes" ELSE "done"

\* lines 230, 236-243: where control goes after the size write of index idx
SizesNextPc(ok, idx, a) ==
    IF ~ok THEN "done"
    ELSE IF idx + 1 < a.num_devices THEN "zc_sizes"
    ELSE "done"

ZC_Call ==
    /\ pc \in {"idle", "done"}
    /\ \E a \in ZramArgs : zargs' = a
    /\ op' = "zram_create_devices"
    /\ pc' = "zc_load1"
    /\ opts' = <<>>
    /\ i' = 0
    /\ entry' = [loaded |-> zramLoaded, num |-> Len(zramDev)]
    /\ prev' = prev
    /\ success' = FALSE
    /\ error' = NoError
    /\ ret' = "none"
    /\ log' = <<>>
    /\ UNCHANGED <<kzram, kbcache, blocals>>

\* lines 189-193 and 207-211: first load and the choice of the fallback
ZC_Load1 ==
    /\ pc = "zc_load1"
    /\ \E r \in LoadOutcomes :
          /\ KernelLoadPossible(r)
          /\ LET o == S_num_devices \o U64Str(zargs.num_devices)
                 res == load_kernel_module(r, error, S_zram, o)
             IN  /\ opts' = o
                 /\ log' = Append(log, Ev("load", o, <<>>, r))
                 /\ success' = res.success
                 /\ IF res.success
                    THEN /\ zramLoaded' = TRUE
                         /\ zramDev' = KernelInsertZram(o)
                    ELSE UNCHANGED kzram
                 /\ IF FallbackWanted(res)
                    THEN /\ error' = NoError
                         /\ pc' = "zc_unload"
                         /\ ret' = ret
                    ELSE IF ~res.success
                    THEN /\ error' = res.error
                         /\ pc' = "done"
                         /\ ret' = "FALSE"
                    ELSE /\ error' = res.error
                         /\ pc' = AfterLoad(zargs)
                         /\ ret' = IF AfterLoad(zargs) = "done" THEN "TRUE" ELSE ret
    /\ i' = 0
    /\ UNCHANGED <<op, prev, zargs, entry, kbcache, blocals>>

\* lines 195-200: unload of the (supposedly loaded) module
ZC_Unload ==
    /\ pc = "zc_unload"
    /\ \E r \in UnloadOutcomes :
          /\ KernelUnloadPossible(r)
          /\ LET res == unload_kernel_module(r, error, S_zram)
             IN  /\ log' = Append(log, Ev("unload", <<>>, <<>>, r))
                 /\ success' = res.success
                 /\ IF res.success
                    THEN /\ zramLoaded' = FALSE
                         /\ zramDev' = <<>>
                         /\ error' = res.error
                         /\ pc' = "zc_load2"
                         /\ ret' = ret
                    ELSE /\ UNCHANGED kzram
                         /\ error' = GPrefixError(res.error,
                                        Piece("zram module already loaded: ", <<>>))
                         /\ pc' = "done"
                         /\ ret' = "FALSE"
    /\ UNCHANGED <<op, prev, zlocals, kbcache, blocals>>

\* a failed second load sent back to the unload
Load2NextPc_Retry(ok, a) == IF ok THEN AfterLoad(a) ELSE "zc_unload"

\* lines 202-205, 209-211: where control goes after the second load
Load2NextPc(ok, a) == IF ok THEN AfterLoad(a) ELSE "done"

\* lines 201-211: the one retry of the load
ZC_Load2 ==
    /\ pc = "zc_load2"
    /\ \E r \in LoadOutcomes :
          /\ KernelLoadPossible(r)
          /\ LET res == load_kernel_module(r, error, S_zram, opts)
             IN  /\ log' = Append(log, Ev("load", opts, <<>>, r))
                 /\ success' = res.success
                 /\ error' = res.error
                 /\ pc' = Load2NextPc(res.success, zargs)
                 /\ IF res.success
                    THEN /\ zramLoaded' = TRUE
                         /\ zramDev' = KernelInsertZram(opts)
                         /\ ret' = IF AfterLoad(zargs) = "done" THEN "TRUE" ELSE ret
                    ELSE /\ UNCHANGED kzram
                         /\ ret' = "FALSE"
    /\ UNCHANGED <<op, prev, zlocals, kbcache, blocals>>

\* line 217
StreamsFileName(idx) == S_sys_block_zram \o U64Str(idx) \o S_max_comp_streams

\* line 218
StreamsNumStr(a, idx) == U64Str(a.nstreams[idx + 1])

\* line 231
SizeFileName(idx) == S_sys_block_zram \o U64Str(idx) \o S_disksize

\* the size of the first device written to every device
SizeNumStr_First(a, idx) == U64Str(a.sizes[1])

\* line 232
SizeNumStr(a, idx) == U64Str(a.sizes[idx + 1])

\* lines 216-227: one iteration of the compression-streams loop
ZC_StreamWrite ==
    /\ pc = "zc_streams"
    /\ \E r \in EchoOutcomes :
          LET file_name == StreamsFileName(i)
              num_str == StreamsNumStr(zargs, i)
              res == echo_str_to_file(r, error, num_str, file_name)
          IN  /\ KernelZramWritePossible(r, num_str, file_name)
              /\ log' = Append(log, Ev("write", file_name, num_str, r))
              /\ success' = res.success
              /\ IF res.success
                 THEN /\ zramDev' = KernelZramStore(num_str, file_name)
                      /\ error' = res.error
                      /\ ret' = ret
                      /\ i' = IF i + 1 < zargs.num_devices THEN i + 1 ELSE 0
                 ELSE /\ zramDev' = zramDev
                      /\ error' = GPrefixError(res.error,
                            Piece("Failed to set number of compression streams for /dev/zram: ",
                                  <<U64Str(i)>>))
                      /\ ret' = "FALSE"
                      /\ i' = i
              /\ pc' = StreamsNextPc(res.success, i, zargs)
    /\ UNCHANGED <<op, prev, zargs, opts, entry, zramLoaded, kbcache, blocals>>

\* lines 230-243: one iteration of the size (activation) loop
ZC_SizeWrite ==
    /\ pc = "zc_sizes"
    /\ \E r \in EchoOutcomes :
          LET file_name == SizeFileName(i)
              num_str == SizeNumStr(zargs, i)
              res == echo_str_to_file(r, error, num_str, file_name)
          IN  /\ KernelZramWritePossible(r, num_str, file_name)
              /\ log' = Append(log, Ev("write", file_name, num_str, r))
              /\ success' = res.success
              /\ IF res.success
                 THEN /\ zramDev' = KernelZramStore(num_str, file_name)
                      /\ error' = res.error
                      /\ i' = i + 1
                      /\ ret' = IF i + 1 < zargs.num_devices THEN ret ELSE "TRUE"
                 ELSE /\ zramDev' = zramDev
                      /\ error' = GPrefixError(res.error,
                            Piece("Failed to set size for /dev/zram: ", <<U64Str(i)>>))
                      /\ ret' = "FALSE"
                      /\ i' = i
              /\ pc' = SizesNextPc(res.success, i, zargs)
    /\ UNCHANGED <<op, prev, zargs, opts, entry, zramLoaded, kbcache, blocals>>

(***************************************************************************)
(* bd_kbd_zram_destroy_devices                                             *)
(***************************************************************************)
\* lines 256-258
ZramDestroy ==
    /\ pc \in {"idle", "done"}
    /\ \E r \in UnloadOutcomes :
          /\ KernelUnloadPossible(r)
          /\ LET res == unload_kernel_module(r, NoError, S_zram)
             IN  /\ log' = <<Ev("unload", <<>>, <<>>, r)>>
                 /\ success' = res.success
                 /\ error' = res.error
                 /\ ret' = BoolStr(res.success)
                 /\ IF res.success
                    THEN /\ zramLoaded' = FALSE
                         /\ zramDev' = <<>>
                    ELSE UNCHANGED kzram
    /\ op' = "zram_destroy_devices"
    /\ pc' = "done"
    /\ prev' = prev
    /\ UNCHANGED <<zlocals, kbcache, blocals>>

(***************************************************************************)
(* Bounds and input alphabets of the bcache part.                          *)
(***************************************************************************)
MaxBcache == 1

Uuids == { <<"a", "-", "1">>, <<"7", "f">> }

ShortNames == { <<"s", "d", "b">> }

\* backing_device as given by the caller: with and without a directory part
BackingInputs == { S_dev \o n : n \in ShortNames } \cup ShortNames

CacheInputs == { S_dev \o <<"s", "d", "c">> }

\* kernel names of the bcache devices: bcache0, bcache1, ...
BcacheName(k) == S_bcache \o U64Str(k)

\* bcache_device as given by the caller: bare, with one and with two "/dev/" prefixes
DevInputs ==
    UNION { { BcacheName(k), S_dev \o BcacheName(k), S_dev \o S_dev \o BcacheName(k) } :
            k \in 0..(MaxBcache - 1) }

(***************************************************************************)
(* The kernel's view of the bcache sysfs tree.                             *)
(***************************************************************************)
AbsentNode == [type |-> "absent", target |-> <<>>]

FileNode == [type |-> "file", target |-> <<>>]

LinkNode(t) == [type |-> "link", target |-> t]

BcachePath(name, attr) == S_sys_block \o name \o attr

CsetStopPath(u) == S_sys_fs_bcache \o u \o S_stop

\* the registered bcache devices a path names through the attribute attr
KDev(path, attr) == { d \in bdevs : BcachePath(d.name, attr) = path }

FreeIndexes == { k \in 0..(MaxBcache - 1) : \A d \in bdevs : d.name # BcacheName(k) }

BcacheFileExists(path) ==
    \/ path = S_register
    \/ KDev(path, S_bcache_attach) # {}
    \/ KDev(path, S_bcache_detach) # {}
    \/ KDev(path, S_bcache_stop) # {}
    \/ \E u \in csets : path = CsetStopPath(u)

\* does the kernel accept the value stored in the file
KernelBcacheAccepts(str, path) ==
    /\ path = S_register =>
          /\ HasPrefix(str, S_dev)
          /\ \A d \in bdevs : d.slave # Skip(str, Len(S_dev))
          /\ FreeIndexes # {}
    /\ KDev(path, S_bcache_attach) # {} =>
          /\ str \in csets
          /\ \A d \in KDev(path, S_bcache_attach) : d.cache.type = "absent"

KernelBcacheWritePossible(r, str, path) ==
    /\ ~BcacheFileExists(path) => r = "open_fail"
    /\ r = "ok" => KernelBcacheAccepts(str, path)

MinOf(S) == CHOOSE k \in S : \A j \in S : k <= j

\* what a successful store does to the kernel's bcache state
KernelBcacheStore(str, path) ==
    IF path = S_register
    THEN [bdevs |-> bdevs \cup { [name |-> BcacheName(MinOf(FreeIndexes)),
                                  slave |-> Skip(str, Len(S_dev)),
                                  cache |-> AbsentNode] },
          csets |-> csets]
    ELSE IF KDev(path, S_bcache_attach) # {}
    THEN [bdevs |-> { IF d \in KDev(path, S_bcache_attach)
                      THEN [d EXCEPT !.cache = LinkNode(S_sys_fs_bcache \o str)]
                      ELSE d : d \in bdevs },
          csets |-> csets]
    ELSE IF KDev(path, S_bcache_detach) # {}
    THEN [bdevs |-> { IF d \in KDev(path, S_bcache_detach)
                      THEN [d EXCEPT !.cache = AbsentNode]
                      ELSE d : d \in bdevs },
          csets |-> csets]
    ELSE IF KDev(path, S_bcache_stop) # {}
    THEN [bdevs |-> bdevs \ KDev(path, S_bcache_stop), csets |-> csets]
    ELSE [bdevs |-> { IF d.cache.type = "link" /\ HasPrefix(d.cache.target, S_sys_fs_bcache)
                         /\ CsetStopPath(Skip(d.cache.target, Len(S_sys_fs_bcache))) = path
                      THEN [d EXCEPT !.cache = AbsentNode]
                      ELSE d : d \in bdevs },
          csets |-> { u \in csets : CsetStopPath(u) # path }]

(***************************************************************************)
(* Output of make-bcache and its parsing.                                  *)
(***************************************************************************)
LowerChars == {"a", "b", "c", "d", "e", "f", "g", "h", "i", "j", "k", "l", "m",
               "n", "o", "p", "q", "r", "s", "t", "u", "v", "w", "x", "y", "z"}

\* the class [-a-z0-9] of the pattern
UuidClass == LowerChars \cup {"-"} \cup { DigitChars[k] : k \in 1..10 }

\* \s of the pattern
WhiteSpace == {" ", "\t", "\n", "\r", "\f"}

S_UUID_line == <<"U", "U", "I", "D", ":", "\t", "z", "\n">>

\* texts make-bcache can leave on stdout for a cache set u
ToolOutputs(u) ==
    { S_UUID_line \o S_Set_UUID \o <<"\t", "\t">> \o u \o <<"\n">>,
      <<"x">> \o S_Set_UUID \o <<" ">> \o u \o <<"Z", "\n">>,
      S_Set_UUID \o <<" ">> \o u \o <<"\n">> \o S_Set_UUID \o <<" ">> \o <<"0">> \o <<"\n">>,
      S_Set_UUID \o u \o <<"\n">>,
      S_Set_UUID \o <<"\n">> \o u \o <<"\n">>,
      S_Set_UUID \o <<" ">> \o <<"A", "\n">>,
      S_UUID_line,
      <<>> }

RECURSIVE g_strsplit(_, _)
\* g_strsplit (s, delim, 0) for a one-character delimiter
g_strsplit(s, delim) ==
    IF s = <<>> THEN <<>>
    ELSE IF StrChr(s, delim) = 0 THEN <<s>>
    ELSE LET k == StrChr(s, delim)
             rest == Skip(s, k)
         IN  <<SubSeq(s, 1, k - 1)>> \o (IF rest = <<>> THEN <<<<>>>> ELSE g_strsplit(rest, delim))

\* first index >= q of line that is not in class C, Len + 1 when the run reaches the end
RunEnd(line, q, C) ==
    IF \E k \in q..Len(line) : line[k] \notin C
    THEN MinOf({ k \in q..Len(line) : line[k] \notin C })
    ELSE Len(line) + 1

\* does "Set UUID:\s+([-a-z0-9]+)" match line starting at position p
MatchesAt(line, p) ==
    /\ p + Len(S_Set_UUID) - 1 <= Len(line)
    /\ SubSeq(line, p, p + Len(S_Set_UUID) - 1) = S_Set_UUID
    /\ LET q == p + Len(S_Set_UUID)
           w == RunEnd(line, q, WhiteSpace)
       IN  /\ w > q
           /\ w <= Len(line)
           /\ line[w] \in UuidClass

\* g_regex_match
g_regex_match(line) == \E p \in 1..Len(line) : MatchesAt(line, p)

\* g_match_info_fetch (match_info, 1) for the leftmost match
g_match_info_fetch(line) ==
    LET p == MinOf({ k \in 1..Len(line) : MatchesAt(line, k) })
        w == RunEnd(line, p + Len(S_Set_UUID), WhiteSpace)
    IN  SubSeq(line, w, RunEnd(line, w, UuidClass) - 1)

\* found set whether or not a line matched
ParseSetUuid_AlwaysFound(output) ==
    LET lines == g_strsplit(output, "\n")
        hits == { k \in 1..Len(lines) : g_regex_match(lines[k]) }
    IN  [found |-> TRUE,
         set_uuid |-> IF hits # {} THEN g_match_info_fetch(lines[MinOf(hits)]) ELSE <<>>]

\* lines 293-312: split the output and take the capture of the first matching line
ParseSetUuid(output) ==
    LET lines == g_strsplit(output, "\n")
        hits == { k \in 1..Len(lines) : g_regex_match(lines[k]) }
    IN  [found |-> hits # {},
         set_uuid |-> IF hits # {} THEN g_match_info_fetch(lines[MinOf(hits)]) ELSE <<>>]

\* bd_utils_exec_and_capture_output: failure with the error set, or the captured stdout
bd_utils_exec_and_capture_output(r, err) ==
    [success |-> r = "ok",
     error |-> IF r = "ok" THEN err
               ELSE GSetError(err, BD_UTILS_EXEC_ERROR, "FAILED", Piece("make-bcache", <<>>))]

(***************************************************************************)
(* Shared shape of a public bcache call and of a sysfs write step.         *)
(***************************************************************************)
\* the prefix left in place
StripDev_None(dev) == dev

\* lines 393-394, 419-420, 479-480
StripDev(dev) == IF HasPrefix(dev, S_dev) THEN Skip(dev, 5) ELSE dev

\* what the caller keeps of the call that just finished
Finished ==
    [op |-> op, bcache_device |-> bargs.bcache_device, c_set_uuid |-> bargs.c_set_uuid,
     ret |-> ret, code |-> error.code, out |-> out, log |-> log]

\* the caller starts a new public call: locals and results are fresh
StartCall(name, a) ==
    /\ pc \in {"idle", "done"}
    /\ prev' = Finished
    /\ op' = name
    /\ bargs' = a
    /\ success' = FALSE
    /\ error' = NoError
    /\ ret' = "none"
    /\ log' = <<>>
    /\ out' = NoOut
    /\ set_uuid' = <<>>
    /\ dev_name' = <<>>
    /\ c_set_uuid' = <<>>
    /\ UNCHANGED <<zlocals, kzram, kbcache>>

BArgs(backing, cache, dev, uuid, want) ==
    [backing_device |-> backing, cache_device |-> cache, bcache_device |-> dev,
     c_set_uuid |-> uuid, out_wanted |-> want]

\* the kernel side of echo_str_to_file on a bcache control file
BcacheWrite(r, str, path) ==
    /\ KernelBcacheWritePossible(r, str, path)
    /\ log' = Append(log, Ev("write", path, str, r))
    /\ IF r = "ok"
       THEN /\ bdevs' = KernelBcacheStore(str, path).bdevs
            /\ csets' = KernelBcacheStore(str, path).csets
       ELSE UNCHANGED kbcache

(***************************************************************************)
(* bd_kbd_bcache_create                                                    *)
(***************************************************************************)
BC_Call ==
    /\ \E b \in BackingInputs, c \in CacheInputs, want \in BOOLEAN :
          StartCall("bcache_create", BArgs(b, c, <<>>, <<>>, want))
    /\ pc' = "bc_exec"
    /\ retpc' = "done"
    /\ bcache_device' = <<>>
    /\ f_dev' = <<>>
    /\ f_uuid' = <<>>

ExecOutcomes == {"fail", "ok"}

\* lines 286-330: run make-bcache, parse the Set UUID, find the short name
BC_Exec ==
    /\ pc = "bc_exec"
    /\ \E r \in ExecOutcomes, u \in Uuids :
       \E output \in IF r = "ok" THEN ToolOutputs(u) ELSE { <<>> } :
       \E visible \in IF r = "ok" THEN BOOLEAN ELSE { FALSE } :
          LET res == bd_utils_exec_and_capture_output(r, error)
              parsed == ParseSetUuid(output)
              slash == StrRChr(bargs.backing_device, "/")
          IN  /\ log' = Append(log, Ev("exec", bargs.backing_device, output, r))
              /\ csets' = IF visible THEN csets \cup {u} ELSE csets
              /\ IF ~res.success
                 THEN /\ error' = res.error
                      /\ success' = FALSE
                      /\ ret' = "FALSE"
                      /\ pc' = "done"
                      /\ UNCHANGED <<set_uuid, dev_name>>
                 ELSE IF ~parsed.found
                 THEN /\ error' = GSetError(res.error, BD_KBD_ERROR, "BCACHE_PARSE",
                                    Piece("Failed to determine Set UUID from: ", <<output>>))
                      /\ success' = FALSE
                      /\ ret' = "FALSE"
                      /\ pc' = "done"
                      /\ UNCHANGED <<set_uuid, dev_name>>
                 ELSE IF slash = 0
                 THEN /\ error' = res.error
                      /\ success' = TRUE
                      /\ set_uuid' = parsed.set_uuid
                      /\ ret' = "FALSE"
                      /\ pc' = "done"
                      /\ UNCHANGED dev_name
                 ELSE /\ error' = res.error
                      /\ success' = TRUE
                      /\ set_uuid' = parsed.set_uuid
                      /\ dev_name' = Skip(bargs.backing_device, slash)
                      /\ ret' = ret
                      /\ pc' = "bc_register"
    /\ UNCHANGED <<op, prev, zlocals, kzram, bdevs, bargs, bcache_device, f_dev, f_uuid, retpc,
                   c_set_uuid, out>>

\* the failure of the register write not acted on
RegisterNextPc_NoAbort(ok) == "bc_glob"

\* lines 334-336: where control goes after the register write
RegisterNextPc(ok) == IF ok THEN "bc_glob" ELSE "done"

\* lines 333-336: register the backing device
BC_Register ==
    /\ pc = "bc_register"
    /\ \E r \in EchoOutcomes :
          LET res == echo_str_to_file(r, error, bargs.backing_device, S_register)
          IN  /\ BcacheWrite(r, bargs.backing_device, S_register)
              /\ success' = res.success
              /\ error' = res.error
              /\ pc' = RegisterNextPc(res.success)
              /\ ret' = IF res.success THEN ret ELSE "FALSE"
    /\ UNCHANGED <<op, prev, zlocals, kzram, blocals>>

\* paths matching /sys/block/*/slaves/<name>
GlobMatches(name) ==
    { S_sys_block \o d.name \o S_slaves \o d.slave : d \in { e \in bdevs : e.slave = name } }

GlobOutcomes == {"ok", "nomatch", "aborted"}

\* the walk stopped one '/' early
ThreeSlashes_Two(path) ==
    LET d0 == Skip(path, 1)
        k1 == StrChr(d0, "/")
    IN  [null |-> k1 = 0, s |-> IF k1 = 0 THEN <<>> ELSE Skip(d0, k1)]

\* lines 350-355: dev_name after moving over the first three '/' of path; null = NULL
ThreeSlashes(path) ==
    LET d0 == Skip(path, 1)
        k1 == StrChr(d0, "/")
        d1 == Skip(d0, k1)
        k2 == IF k1 = 0 THEN 0 ELSE StrChr(d1, "/")
    IN  [null |-> k1 = 0 \/ k2 = 0, s |-> IF k1 = 0 \/ k2 = 0 THEN <<>> ELSE Skip(d1, k2)]

\* lines 360-362: everything till the next '/'
TillNextSlash(s) == IF StrChr(s, "/") = 0 THEN s ELSE SubSeq(s, 1, StrChr(s, "/") - 1)

\* lines 338-366: find the bcache device through its slave and call attach
BC_Glob ==
    /\ pc = "bc_glob"
    /\ \E g \in GlobOutcomes :
       \E path \in IF g = "ok" THEN GlobMatches(dev_name) ELSE { <<>> } :
          LET pattern == S_sys_block \o <<"*">> \o S_slaves \o dev_name
              walked == ThreeSlashes(path)
          IN  /\ g = "nomatch" => GlobMatches(dev_name) = {}
              /\ log' = Append(log, Ev("glob", pattern, path, g))
              /\ IF g # "ok"
                 THEN /\ error' = GSetError(error, BD_KBD_ERROR, "BCACHE_SETUP_FAIL",
                                    Piece("Failed to determine bcache device name for",
                                          <<dev_name>>))
                      /\ ret' = "FALSE"
                      /\ pc' = "done"
                      /\ UNCHANGED <<dev_name, f_dev, f_uuid, retpc>>
                 ELSE IF walked.null
                 THEN /\ error' = error
                      /\ ret' = "FALSE"
                      /\ pc' = "done"
                      /\ UNCHANGED <<dev_name, f_dev, f_uuid, retpc>>
                 ELSE /\ error' = error
                      /\ ret' = ret
                      /\ dev_name' = TillNextSlash(walked.s)
                      /\ f_uuid' = set_uuid
                      /\ f_dev' = TillNextSlash(walked.s)
                      /\ retpc' = "bc_after_attach"
                      /\ pc' = "ba_write"
    /\ UNCHANGED <<op, prev, zlocals, kzram, kbcache, success, bargs, bcache_device, set_uuid,
                   c_set_uuid, out>>

\* lines 367-378: result of the attach
BC_AfterAttach ==
    /\ pc = "bc_after_attach"
    /\ IF ~success
       THEN /\ error' = GPrefixError(error,
                          Piece("Failed to attach the cache to the backing device: ", <<>>))
            /\ ret' = "FALSE"
            /\ out' = out
       ELSE /\ error' = error
            /\ ret' = "TRUE"
            /\ out' = IF bargs.out_wanted THEN [set |-> TRUE, val |-> dev_name] ELSE out
    /\ pc' = "done"
    /\ UNCHANGED <<op, prev, zlocals, kzram, kbcache, success, log, bargs, bcache_device, f_dev,
                   f_uuid, retpc, set_uuid, dev_name, c_set_uuid>>

(***************************************************************************)
(* bd_kbd_bcache_attach                                                    *)
(***************************************************************************)
BA_Call ==
    /\ \E u \in Uuids, dev \in DevInputs :
          /\ StartCall("bcache_attach", BArgs(<<>>, <<>>, dev, u, FALSE))
          /\ f_uuid' = u
          /\ f_dev' = dev
    /\ pc' = "ba_write"
    /\ retpc' = "done"
    /\ bcache_device' = <<>>

\* line 396
AttachPath(dev) == S_sys_block \o dev \o S_bcache_attach

\* lines 393-401
BA_Write ==
    /\ pc = "ba_write"
    /\ \E r \in EchoOutcomes :
          LET dev == StripDev(f_dev)
              path == AttachPath(dev)
              res == echo_str_to_file(r, error, f_uuid, path)
          IN  /\ BcacheWrite(r, f_uuid, path)
              /\ f_dev' = dev
              /\ success' = res.success
              /\ error' = res.error
              /\ pc' = retpc
              /\ ret' = IF retpc = "done" THEN BoolStr(res.success) ELSE ret
    /\ UNCHANGED <<op, prev, zlocals, kzram, bargs, bcache_device, f_uuid, retpc, set_uuid,
                   dev_name, c_set_uuid, out>>

(***************************************************************************)
(* bd_kbd_bcache_detach                                                    *)
(***************************************************************************)
BD_Call ==
    /\ \E dev \in DevInputs, want \in BOOLEAN :
          /\ StartCall("bcache_detach", BArgs(<<>>, <<>>, dev, <<>>, want))
          /\ f_dev' = dev
    /\ pc' = "bd_resolve"
    /\ retpc' = "done"
    /\ f_uuid' = <<>>
    /\ bcache_device' = <<>>

\* line 422
CachePath(dev) == S_sys_block \o dev \o S_bcache_cache

\* line 449
DetachPath(dev) == S_sys_block \o dev \o S_bcache_detach

\* what the kernel keeps at a bcache/cache path
NodeAt(path) ==
    IF KDev(path, S_bcache_cache) = {} THEN AbsentNode
    ELSE (CHOOSE d \in KDev(path, S_bcache_cache) : TRUE).cache

\* the readability check left out
access_Always(path) == TRUE

\* access (path, R_OK) == 0
access(path) == NodeAt(path).type # "absent"

\* g_file_read_link: the target, or NULL with a GFileError set
g_file_read_link(path, err) ==
    IF NodeAt(path).type = "link"
    THEN [null |-> FALSE, link |-> NodeAt(path).target, error |-> err]
    ELSE [null |-> TRUE, link |-> <<>>,
          error |-> GSetError(err, G_FILE_ERROR, "errno", Piece("readlink", <<path>>))]

\* a callee hands control back: to the caller of the public call, or to its caller's code
ReturnTo(succ) ==
    /\ pc' = retpc
    /\ success' = succ
    /\ ret' = IF retpc = "done" THEN BoolStr(succ) ELSE ret

\* lines 419-447: find the UUID of the attached cache set
BD_Resolve ==
    /\ pc = "bd_resolve"
    /\ LET dev == StripDev(f_dev)
           path == CachePath(dev)
           rl == g_file_read_link(path, error)
           slash == StrRChr(rl.link, "/")
       IN  /\ f_dev' = dev
           /\ IF ~access(path)
              THEN /\ log' = Append(log, Ev("access", path, <<>>, "fail"))
                   /\ error' = GSetError(error, BD_KBD_ERROR, "BCACHE_NOT_ATTACHED",
                                 Piece("No cache attached or not set up", <<dev, dev>>))
                   /\ ReturnTo(FALSE)
                   /\ f_uuid' = f_uuid
              ELSE IF rl.null
              THEN /\ log' = log \o << Ev("access", path, <<>>, "ok"),
                                       Ev("readlink", path, <<>>, "fail") >>
                   /\ error' = GPrefixError(rl.error,
                                 Piece("Failed to determine cache set UUID for", <<dev>>))
                   /\ ReturnTo(FALSE)
                   /\ f_uuid' = f_uuid
              ELSE IF slash = 0
              THEN /\ log' = log \o << Ev("access", path, <<>>, "ok"),
                                       Ev("readlink", path, rl.link, "ok") >>
                   /\ error' = GSetError(rl.error, BD_KBD_ERROR, "BCACHE_UUID",
                                 Piece("Failed to determine cache set UUID for", <<dev>>))
                   /\ ReturnTo(FALSE)
                   /\ f_uuid' = f_uuid
              ELSE /\ log' = log \o << Ev("access", path, <<>>, "ok"),
                                       Ev("readlink", path, rl.link, "ok") >>
                   /\ error' = rl.error
                   /\ f_uuid' = Skip(rl.link, slash)
                   /\ pc' = "bd_write"
                   /\ UNCHANGED <<success, ret>>
    /\ UNCHANGED <<op, prev, zlocals, kzram, kbcache, bargs, bcache_device, retpc, set_uuid,
                   dev_name, c_set_uuid, out>>

\* is detach's c_set_uuid out-pointer non-NULL (destroy always passes &c_set_uuid)
DetachOutWanted == IF retpc = "done" THEN bargs.out_wanted ELSE TRUE

\* lines 449-464: ask the kernel to detach
BD_Write ==
    /\ pc = "bd_write"
    /\ \E r \in EchoOutcomes :
          LET path == DetachPath(f_dev)
              res == echo_str_to_file(r, error, f_uuid, path)
          IN  /\ BcacheWrite(r, f_uuid, path)
              /\ ReturnTo(res.success)
              /\ IF ~res.success
                 THEN /\ error' = GSetError(res.error, BD_KBD_ERROR, "BCACHE_DETACH_FAIL",
                                    Piece("Failed to detach", <<f_uuid, f_dev>>))
                      /\ UNCHANGED <<out, c_set_uuid>>
                 ELSE /\ error' = res.error
                      /\ out' = IF retpc = "done" /\ DetachOutWanted
                                THEN [set |-> TRUE, val |-> f_uuid] ELSE out
                      /\ c_set_uuid' = IF retpc # "done" THEN f_uuid ELSE c_set_uuid
    /\ UNCHANGED <<op, prev, zlocals, kzram, bargs, bcache_device, f_dev, f_uuid, retpc, set_uuid,
                   dev_name>>

(***************************************************************************)
(* bd_kbd_bcache_destroy                                                   *)
(***************************************************************************)
\* lines 479-482: strip the prefix and call detach
BDs_Call ==
    /\ \E dev \in DevInputs :
          /\ StartCall("bcache_destroy", BArgs(<<>>, <<>>, dev, <<>>, FALSE))
          /\ bcache_device' = StripDev(dev)
          /\ f_dev' = StripDev(dev)
    /\ pc' = "bd_resolve"
    /\ retpc' = "bds_after_detach"
    /\ f_uuid' = <<>>

\* the stop file looked for without the UUID
SetStopPath_NoUuid(uuid) == S_sys_fs_bcache \o S_stop

\* line 487
SetStopPath(uuid) == S_sys_fs_bcache \o uuid \o S_stop

\* line 495
DevStopPath(dev) == S_sys_block \o dev \o S_bcache_stop

\* the failure of the cache set stop write not acted on
SetStopNextPc_NoAbort(ok) == "bds_stop_dev"

\* lines 490-495: where control goes after the cache set stop write
SetStopNextPc(ok) == IF ok THEN "bds_stop_dev" ELSE "done"

\* lines 483-485: detach failed, the error is already populated
BDs_DetachFailed ==
    /\ pc = "bds_after_detach"
    /\ ~success
    /\ pc' = "done"
    /\ ret' = "FALSE"
    /\ UNCHANGED <<op, prev, zlocals, kzram, kbcache, blocals, success, error, log>>

\* lines 483-493: stop the cache set
BDs_StopSet ==
    /\ pc = "bds_after_detach"
    /\ success
    /\ \E r \in EchoOutcomes :
          LET path == SetStopPath(c_set_uuid)
              res == echo_str_to_file(r, error, S_one, path)
          IN  /\ BcacheWrite(r, S_one, path)
              /\ success' = res.success
              /\ IF ~res.success
                 THEN /\ error' = GPrefixError(res.error,
                                    Piece("Failed to stop the cache set: ", <<>>))
                      /\ ret' = "FALSE"
                 ELSE /\ error' = res.error
                      /\ ret' = ret
              /\ pc' = SetStopNextPc(res.success)
    /\ UNCHANGED <<op, prev, zlocals, kzram, blocals>>

\* lines 495-503: stop the bcache device
BDs_StopDev ==
    /\ pc = "bds_stop_dev"
    /\ \E r \in EchoOutcomes :
          LET path == DevStopPath(bcache_device)
              res == echo_str_to_file(r, error, S_one, path)
          IN  /\ BcacheWrite(r, S_one, path)
              /\ success' = res.success
              /\ pc' = "done"
              /\ IF ~res.success
                 THEN /\ error' = GPrefixError(res.error,
                                    Piece("Failed to stop the bcache: ", <<>>))
                      /\ ret' = "FALSE"
                 ELSE /\ error' = res.error
                      /\ ret' = "TRUE"
    /\ UNCHANGED <<op, prev, zlocals, kzram, blocals>>


(***************************************************************************)
(* Initial states and specifications.                                      *)
(***************************************************************************)
InitProgram ==
    /\ pc = "idle"
    /\ op = "none"
    /\ zargs = [num_devices |-> 0, sizes |-> <<>>, nstreams_given |-> FALSE, nstreams |-> <<>>]
    /\ opts = <<>>
    /\ i = 0
    /\ entry = [loaded |-> FALSE, num |-> 0]
    /\ success = FALSE
    /\ error = NoError
    /\ ret = "none"
    /\ log = <<>>
    /\ bargs = [backing_device |-> <<>>, cache_device |-> <<>>, bcache_device |-> <<>>,
                c_set_uuid |-> <<>>, out_wanted |-> FALSE]
    /\ bcache_device = <<>>
    /\ f_dev = <<>>
    /\ f_uuid = <<>>
    /\ retpc = "done"
    /\ set_uuid = <<>>
    /\ dev_name = <<>>
    /\ c_set_uuid = <<>>
    /\ out = NoOut
    /\ prev = [op |-> "none", bcache_device |-> <<>>, c_set_uuid |-> <<>>, ret |-> "none",
               code |-> "none", out |-> NoOut, log |-> <<>>]

\* the zram module is not loaded when the plugin starts
InitZramKernel ==
    /\ zramLoaded = FALSE
    /\ zramDev = <<>>

InitZram ==
    /\ InitProgram
    /\ InitZramKernel
    /\ bdevs = {}
    /\ csets = {}

NextZram ==
    \/ ZC_Call
    \/ ZC_Load1
    \/ ZC_Unload
    \/ ZC_Load2
    \/ ZC_StreamWrite
    \/ ZC_SizeWrite
    \/ ZramDestroy

SpecZram == InitZram /\ [][NextZram]_vars

\* a step of the zram_create_devices call in progress
ZCreateStep == ZC_Load1 \/ ZC_Unload \/ ZC_Load2 \/ ZC_StreamWrite \/ ZC_SizeWrite

\* a call that has started runs on until it returns: the code is sequential and
\* every library call it makes returns
SpecZramFair == SpecZram /\ WF_vars(ZCreateStep)

\* sysfs trees the bcache operations can be started on: nothing registered, or one
\* registered device whose bcache/cache is absent, a symlink to its cache set, a
\* symlink whose target has no '/', or a path that is not a symlink
BcacheFixtures ==
    { [bdevs |-> {}, csets |-> {}] }
    \cup { [bdevs |-> { [name |-> BcacheName(0), slave |-> s, cache |-> c] },
            csets |-> IF c.type = "link" /\ HasPrefix(c.target, S_sys_fs_bcache)
                      THEN { Skip(c.target, Len(S_sys_fs_bcache)) } ELSE {}] :
           s \in ShortNames,
           c \in { AbsentNode, FileNode } \cup { LinkNode(u) : u \in Uuids }
                 \cup { LinkNode(S_sys_fs_bcache \o u) : u \in Uuids } }

InitBcache ==
    /\ InitProgram
    /\ InitZramKernel
    /\ \E fx \in BcacheFixtures :
          /\ bdevs = fx.bdevs
          /\ csets = fx.csets

NextBcache ==
    \/ BC_Call
    \/ BC_Exec
    \/ BC_Register
    \/ BC_Glob
    \/ BC_AfterAttach
    \/ BA_Call
    \/ BA_Write
    \/ BD_Call
    \/ BD_Resolve
    \/ BD_Write
    \/ BDs_Call
    \/ BDs_DetachFailed
    \/ BDs_StopSet
    \/ BDs_StopDev

SpecBcache == InitBcache /\ [][NextBcache]_vars

(***************************************************************************)
(* Properties of bd_kbd_zram_create_devices.                               *)
(***************************************************************************)
ZCreate == op = "zram_create_devices"

IsStreamsWrite(e) == e.kind = "write" /\ HasSuffix(e.path, S_max_comp_streams)

IsSizeWrite(e) == e.kind = "write" /\ HasSuffix(e.path, S_disksize)

IsAnyWrite(e) == e.kind = "write"

LogIdx == 1..Len(log)

\* C1: in a zram_create_devices call with nstreams given, every write to a
\* max_comp_streams file precedes every write to a disksize file, and when the
\* first disksize write is issued the max_comp_streams file of every index
\* 0 .. num_devices-1 has already been written (so, for each index, its stream
\* count is written strictly before its size).
C1_StreamsBeforeSizes ==
    (ZCreate /\ zargs.nstreams_given) =>
        /\ \A k \in LogIdx, l \in LogIdx :
              (IsStreamsWrite(log[k]) /\ IsSizeWrite(log[l])) => k < l
        /\ \A l \in LogIdx :
              IsSizeWrite(log[l]) =>
                 \A j \in 0..(zargs.num_devices - 1) :
                    \E k \in 1..(l - 1) :
                       /\ log[k].kind = "write"
                       /\ log[k].res = "ok"
                       /\ log[k].path = S_sys_block_zram \o U64Str(j) \o S_max_comp_streams

C1_Witness ==
    /\ ZCreate
    /\ pc = "done"
    /\ ret = "TRUE"
    /\ zargs.nstreams_given
    /\ zargs.num_devices >= 2
    /\ \E l \in LogIdx : IsSizeWrite(log[l])

\* C2: when a max_comp_streams write fails for index i, the call is over and has
\* returned failure, that write is the last event of the call, no disksize write
\* was issued, and no max_comp_streams write was issued for an index above i.
C2_StreamFailureStops ==
    ZCreate =>
        \A k \in LogIdx :
           (IsStreamsWrite(log[k]) /\ log[k].res # "ok") =>
              /\ pc = "done"
              /\ ret = "FALSE"
              /\ k = Len(log)
              /\ \A l \in LogIdx : ~IsSizeWrite(log[l])
              /\ \E idx \in 0..(zargs.num_devices - 1) :
                    /\ log[k].path = S_sys_block_zram \o U64Str(idx) \o S_max_comp_streams
                    /\ \A l \in LogIdx :
                          IsStreamsWrite(log[l]) =>
                             \E j \in 0..idx :
                                log[l].path = S_sys_block_zram \o U64Str(j) \o S_max_comp_streams

C2_Witness ==
    /\ ZCreate
    /\ pc = "done"
    /\ ret = "FALSE"
    /\ zargs.num_devices >= 2
    /\ Len(log) >= 2
    /\ IsStreamsWrite(log[Len(log)])
    /\ log[Len(log)].res # "ok"
    /\ IsStreamsWrite(log[Len(log) - 1])

\* the module load that the device writes follow succeeded, and so did every write
ZLoadAndWritesSucceeded ==
    /\ \E k \in LogIdx : log[k].kind = "load" /\ log[k].res = "ok"
    /\ \A k \in LogIdx : IsAnyWrite(log[k]) => log[k].res = "ok"

\* C3: a finished zram_create_devices call whose module load and sysfs writes all
\* succeeded has returned success; and a call that returned success has left the
\* module loaded with exactly num_devices devices, device i with disksize sizes[i]
\* and (nstreams given) max_comp_streams nstreams[i], and has written only files
\* of the indices 0 .. num_devices-1.
C3_CreateResult ==
    (ZCreate /\ pc = "done") =>
        /\ ZLoadAndWritesSucceeded => ret = "TRUE"
        /\ ret = "TRUE" =>
              /\ zramLoaded
              /\ Len(zramDev) = zargs.num_devices
              /\ \A j \in 1..zargs.num_devices :
                    /\ zramDev[j].disksize = zargs.sizes[j]
                    /\ zargs.nstreams_given =>
                          zramDev[j].max_comp_streams = zargs.nstreams[j]
              /\ \A k \in LogIdx :
                    IsAnyWrite(log[k]) =>
                       \E j \in 0..(zargs.num_devices - 1) :
                          log[k].path \in
                             { S_sys_block_zram \o U64Str(j) \o S_max_comp_streams,
                               S_sys_block_zram \o U64Str(j) \o S_disksize }
              /\ Cardinality({ k \in LogIdx : IsSizeWrite(log[k]) }) = zargs.num_devices

C3_Witness ==
    /\ ZCreate
    /\ pc = "done"
    /\ ret = "TRUE"
    /\ zargs.nstreams_given
    /\ zargs.num_devices = 2
    /\ zargs.sizes[1] # zargs.sizes[2]
    /\ zargs.nstreams[1] # zargs.nstreams[2]
    /\ zramDev[2].disksize = zargs.sizes[2]

\* the call found the module loaded with another number of devices and its first
\* load failed at the insertion
ZReloadCase ==
    /\ ZCreate
    /\ entry.loaded
    /\ entry.num # zargs.num_devices
    /\ Len(log) >= 1
    /\ log[1].kind = "load"
    /\ log[1].res = "insert_fail"

\* C4: a zram_create_devices call that finds the module loaded with another
\* num_devices does not return on the failed first load: the events of the call
\* are, in this order, the failed load, an unload, a load with the option
\* num_devices=<new count>, then only sysfs writes; and when the unload, the
\* second load and all writes succeed, it returns success with num_devices devices.
C4_ReloadWhenLoaded ==
    ZReloadCase =>
        /\ Len(log) = 1 => pc = "zc_unload"
        /\ Len(log) >= 2 => log[2].kind = "unload"
        /\ Len(log) >= 3 =>
              /\ log[2].res = "ok"
              /\ log[3].kind = "load"
              /\ log[3].path = S_num_devices \o U64Str(zargs.num_devices)
        /\ \A k \in LogIdx : k >= 4 => (IsAnyWrite(log[k]) /\ log[3].res = "ok")
        /\ (/\ pc = "done"
            /\ Len(log) >= 3
            /\ log[3].res = "ok"
            /\ \A k \in LogIdx : IsAnyWrite(log[k]) => log[k].res = "ok") =>
              /\ ret = "TRUE"
              /\ error = NoError
              /\ zramLoaded
              /\ Len(zramDev) = zargs.num_devices

C4_Witness ==
    /\ ZReloadCase
    /\ pc = "done"
    /\ ret = "TRUE"
    /\ Len(log) >= 5
    /\ log[2].kind = "unload"
    /\ log[3].kind = "load"
    /\ IsSizeWrite(log[Len(log)])

\* kind and message of the error unload_kernel_module reports for an outcome
UnloadFailureCode(r) ==
    CASE r = "ctx_fail" -> "KMOD_INIT_FAIL"
      [] r = "not_found" -> "MODULE_NOEXIST"
      [] OTHER -> "MODULE_FAIL"

\* C5: in zram_create_devices, (a) a first load failing with KMOD_INIT_FAIL or
\* MODULE_NOEXIST ends the call with that error, with no unload, no second load
\* and no sysfs write; an unload is attempted only after a first load that failed
\* with MODULE_FAIL; (b) a failing unload ends the call with the unload's error,
\* its message prefixed with "zram module already loaded: ", with no second load
\* and no sysfs write; (c) a failing second load ends the call with no sysfs write.
C5_FallbackOnlyOnModuleFail ==
    (ZCreate /\ Len(log) >= 1) =>
        /\ log[1].res \in {"ctx_fail", "no_path"} =>
              /\ Len(log) = 1
              /\ pc = "done"
              /\ ret = "FALSE"
              /\ error.domain = BD_KBD_ERROR
              /\ error.code = (IF log[1].res = "ctx_fail" THEN "KMOD_INIT_FAIL"
                               ELSE "MODULE_NOEXIST")
        /\ \A k \in LogIdx :
              log[k].kind = "unload" =>
                 (k = 2 /\ log[1].res \in {"name_fail", "insert_fail"})
        /\ (Len(log) >= 2 /\ log[2].kind = "unload" /\ log[2].res # "ok") =>
              /\ Len(log) = 2
              /\ pc = "done"
              /\ ret = "FALSE"
              /\ error.domain = BD_KBD_ERROR
              /\ error.code = UnloadFailureCode(log[2].res)
              /\ Len(error.msg) = 2
              /\ error.msg[1].text = "zram module already loaded: "
        /\ (Len(log) >= 3 /\ log[3].kind = "load" /\ log[3].res # "ok") =>
              /\ Len(log) = 3
              /\ pc = "done"
              /\ ret = "FALSE"
              /\ error.code \in {"KMOD_INIT_FAIL", "MODULE_NOEXIST", "MODULE_FAIL"}

C5_Witness ==
    /\ ZCreate
    /\ pc = "done"
    /\ ret = "FALSE"
    /\ Len(log) = 2
    /\ log[1].res = "insert_fail"
    /\ log[2].kind = "unload"
    /\ log[2].res = "not_found"
    /\ error.code = "MODULE_NOEXIST"
    /\ error.msg[1].text = "zram module already loaded: "

(***************************************************************************)
(* Properties of the bcache operations.                                    *)
(***************************************************************************)
IsSetStopWrite(e) ==
    e.kind = "write" /\ HasPrefix(e.path, S_sys_fs_bcache) /\ HasSuffix(e.path, S_stop)

IsDevStopWrite(e) ==
    e.kind = "write" /\ HasPrefix(e.path, S_sys_block) /\ HasSuffix(e.path, S_bcache_stop)

IsDetachWrite(e) ==
    e.kind = "write" /\ HasPrefix(e.path, S_sys_block) /\ HasSuffix(e.path, S_bcache_detach)

\* C6: in bcache_destroy, a write to /sys/block/<device>/bcache/stop is a write of
\* "1" that follows a successful write of "1" to /sys/fs/bcache/<u>/stop, where
\* /sys/fs/bcache/<u> is the cache set the device's bcache/cache link named; and
\* a failed cache-set stop write is the last event of the call, which has
\* returned failure without a write to bcache/stop.
C6_SetStopBeforeDevStop ==
    op = "bcache_destroy" =>
        \A k \in LogIdx :
           /\ IsDevStopWrite(log[k]) =>
                 /\ log[k].value = S_one
                 /\ \E l \in 1..(k - 1) : IsSetStopWrite(log[l]) /\ log[l].res = "ok"
           /\ IsSetStopWrite(log[k]) =>
                 /\ log[k].value = S_one
                 /\ \E r \in 1..(k - 1) :
                       /\ log[r].kind = "readlink"
                       /\ HasPrefix(log[r].value, S_sys_fs_bcache)
                       /\ log[k].path = log[r].value \o S_stop
           /\ (IsSetStopWrite(log[k]) /\ log[k].res # "ok") =>
                 /\ k = Len(log)
                 /\ pc = "done"
                 /\ ret = "FALSE"
                 /\ \A l \in LogIdx : ~IsDevStopWrite(log[l])

C6_Witness ==
    /\ op = "bcache_destroy"
    /\ pc = "done"
    /\ ret = "TRUE"
    /\ \E k \in LogIdx, l \in LogIdx :
          /\ k < l
          /\ IsSetStopWrite(log[k])
          /\ IsDevStopWrite(log[l])
          /\ log[l].res = "ok"

\* C7: a bcache_detach call whose write to bcache/detach failed has returned
\* failure with the error BCACHE_DETACH_FAIL of the plugin (not the error of the
\* failed write) and has not handed a UUID to the caller.
C7_DetachFailedKind ==
    (/\ op = "bcache_detach"
     /\ pc = "done"
     /\ Len(log) >= 1
     /\ IsDetachWrite(log[Len(log)])
     /\ log[Len(log)].res # "ok") =>
        /\ ret = "FALSE"
        /\ error.domain = BD_KBD_ERROR
        /\ error.code = "BCACHE_DETACH_FAIL"
        /\ ~out.set

\* C8: a public operation that has returned failure has also handed an error
\* (kind and message) to its caller.
C8_FailureHasError ==
    (pc = "done" /\ ret = "FALSE") =>
        /\ error # NoError
        /\ error.domain # "none"
        /\ error.code # "none"
        /\ error.msg # <<>>

\* no line of the text matches the Set UUID pattern
NoSetUuidLine(text) ==
    \A n \in 1..Len(g_strsplit(text, "\n")) : ~g_regex_match(g_strsplit(text, "\n")[n])

\* C9: a bcache_create call whose tool output has no line matching the Set UUID
\* pattern has ended right after the tool run with the error BCACHE_PARSE, and
\* has issued no sysfs write (no register write, no attach write).
C9_NoUuidNoWrite ==
    op = "bcache_create" =>
        \A k \in LogIdx :
           (log[k].kind = "exec" /\ log[k].res = "ok" /\ NoSetUuidLine(log[k].value)) =>
              /\ pc = "done"
              /\ ret = "FALSE"
              /\ error.domain = BD_KBD_ERROR
              /\ error.code = "BCACHE_PARSE"
              /\ Len(log) = 1
              /\ \A l \in LogIdx : log[l].kind # "write"

C9_Witness ==
    /\ op = "bcache_create"
    /\ pc = "done"
    /\ ret = "FALSE"
    /\ error.code = "BCACHE_PARSE"
    /\ Len(log) = 1
    /\ log[1].kind = "exec"
    /\ HasPrefix(log[1].value, S_Set_UUID)
    /\ StrRChr(bargs.backing_device, "/") # 0

\* the device a bcache_detach call names: its argument without one "/dev/" prefix
DetachDevice ==
    IF HasPrefix(bargs.bcache_device, S_dev)
    THEN SubSeq(bargs.bcache_device, Len(S_dev) + 1, Len(bargs.bcache_device))
    ELSE bargs.bcache_device

\* C10: a finished bcache_detach call on a device whose bcache/cache path does
\* not exist (the call having changed nothing in sysfs) has returned failure with
\* the error BCACHE_NOT_ATTACHED and has issued no write at all.
C10_NotAttached ==
    (/\ op = "bcache_detach"
     /\ pc = "done"
     /\ \A k \in LogIdx : ~(log[k].kind = "write" /\ log[k].res = "ok")
     /\ NodeAt(S_sys_block \o DetachDevice \o S_bcache_cache).type = "absent") =>
        /\ ret = "FALSE"
        /\ error.domain = BD_KBD_ERROR
        /\ error.code = "BCACHE_NOT_ATTACHED"
        /\ ~out.set
        /\ \A k \in LogIdx : log[k].kind # "write"

C10_Witness ==
    /\ op = "bcache_detach"
    /\ pc = "done"
    /\ ret = "FALSE"
    /\ error.code = "BCACHE_NOT_ATTACHED"
    /\ \E d \in bdevs : d.name = DetachDevice /\ d.cache.type = "absent"
    /\ Len(log) = 1
    /\ log[1].kind = "access"

\* a finished bcache_detach call that directly follows a successful bcache_attach
\* call on the same bcache_device argument
RoundTripCase ==
    /\ op = "bcache_detach"
    /\ pc = "done"
    /\ prev.op = "bcache_attach"
    /\ prev.ret = "TRUE"
    /\ prev.bcache_device = bargs.bcache_device

\* C11, unconditional form: bcache_detach right after a successful bcache_attach (u, dev)
\* succeeds, hands u to the caller and has written u to bcache/detach.
C11_RoundTripAlwaysSucceeds ==
    RoundTripCase =>
        /\ ret = "TRUE"
        /\ bargs.out_wanted => (out.set /\ out.val = prev.c_set_uuid)
        /\ \E k \in LogIdx : IsDetachWrite(log[k]) /\ log[k].value = prev.c_set_uuid

\* C11: bcache_detach right after a successful bcache_attach (u, dev)
\* issues exactly one write, of u, to /sys/block/<dev without "/dev/">/bcache/detach;
\* it succeeds exactly when that write succeeds, and then hands exactly u to the
\* caller.
C11_RoundTrip ==
    RoundTripCase =>
        /\ \E k \in LogIdx :
              /\ IsDetachWrite(log[k])
              /\ log[k].path = S_sys_block \o DetachDevice \o S_bcache_detach
              /\ log[k].value = prev.c_set_uuid
              /\ \A l \in LogIdx : log[l].kind = "write" => l = k
              /\ (ret = "TRUE") <=> (log[k].res = "ok")
        /\ (ret = "TRUE" /\ bargs.out_wanted) => (out.set /\ out.val = prev.c_set_uuid)
        /\ ret # "TRUE" => ~out.set

C11_Witness ==
    /\ RoundTripCase
    /\ ret = "TRUE"
    /\ out.set
    /\ out.val = prev.c_set_uuid
    /\ HasPrefix(bargs.bcache_device, S_dev)

\* two bcache_detach calls in a row, one on a device name X (not itself starting
\* with "/dev/") and one on "/dev/" + X, the earlier having left sysfs as it was
DetachPairCase ==
    /\ op = "bcache_detach"
    /\ pc = "done"
    /\ prev.op = "bcache_detach"
    /\ \A k \in 1..Len(prev.log) : ~(prev.log[k].kind = "write" /\ prev.log[k].res = "ok")
    /\ \/ /\ bargs.bcache_device = S_dev \o prev.bcache_device
          /\ ~HasPrefix(prev.bcache_device, S_dev)
       \/ /\ prev.bcache_device = S_dev \o bargs.bcache_device
          /\ ~HasPrefix(bargs.bcache_device, S_dev)

\* the events of a call, without the kernel's answer to a write
Asked(l) == [k \in 1..Len(l) |-> IF l[k].kind = "write" THEN [l[k] EXCEPT !.res = "asked"] ELSE l[k]]

\* C12: for a device name X (a name does not begin with "/dev/"), bcache_detach
\* ("/dev/" + X) and bcache_detach (X) started on the same sysfs state check the
\* same bcache/cache path with the same answer, read the same link, issue the
\* same write to the same bcache/detach path, and, the kernel answering that
\* write alike (or no write being issued), return the same success flag, the same
\* UUID and the same error kind.
C12_PrefixEquivalent ==
    DetachPairCase =>
        /\ Asked(log) = Asked(prev.log)
        /\ log = prev.log =>
              /\ ret = prev.ret
              /\ error.code = prev.code
              /\ out = prev.out
        /\ (Len(log) >= 1 /\ log[Len(log)].kind = "write" /\ log[Len(log)].res = "ok") =>
              /\ ret = "TRUE"
              /\ log[Len(log)].value = prev.log[Len(prev.log)].value
              /\ bargs.out_wanted => out.val = log[Len(log)].value

C12_Witness ==
    /\ DetachPairCase
    /\ ret = "TRUE"
    /\ prev.ret = "FALSE"
    /\ Len(log) = 3
    /\ IsDetachWrite(prev.log[3])
    /\ IsDetachWrite(log[3])
    /\ bargs.bcache_device = S_dev \o prev.bcache_device

\* the n-th '/'-delimited component of an absolute path, and the last one
PathComponent(path, n) ==
    LET parts == g_strsplit(path, "/")
    IN  IF Len(parts) >= n + 1 THEN parts[n + 1] ELSE <<>>

LastComponent(path) ==
    LET parts == g_strsplit(path, "/")
    IN  IF parts = <<>> THEN <<>> ELSE parts[Len(parts)]

\* C13: when bcache_create gets as far as its attach write, the tool ran first
\* and succeeded, then the full backing device path was written to
\* /sys/fs/bcache/register, then glob matched /sys/block/<B>/slaves/<short name of
\* the backing device>, and the attach write puts the Set UUID parsed from the
\* tool output into /sys/block/<B>/bcache/attach, B being the third component of
\* the match; a successful call is one whose attach write succeeded, returns B,
\* and leaves B's cache attached to that set.
C13_CreateResult ==
    /\ (op = "bcache_create" /\ Len(log) >= 4) =>
          LET B == PathComponent(log[3].value, 3)
              u == log[4].value
          IN  /\ Len(log) = 4
              /\ log[1].kind = "exec"
              /\ log[1].res = "ok"
              /\ log[2] = Ev("write", S_register, bargs.backing_device, "ok")
              /\ log[3].kind = "glob"
              /\ log[3].res = "ok"
              /\ log[3].value = S_sys_block \o B \o S_slaves \o LastComponent(bargs.backing_device)
              /\ log[4].kind = "write"
              /\ log[4].path = S_sys_block \o B \o S_bcache_attach
              /\ u \in Uuids
              /\ log[1].value \in ToolOutputs(u)
              /\ u = ParseSetUuid(log[1].value).set_uuid
    /\ (op = "bcache_create" /\ pc = "done" /\ ret = "TRUE") =>
          LET B == PathComponent(log[3].value, 3)
          IN  /\ Len(log) = 4
              /\ log[4].res = "ok"
              /\ bargs.out_wanted => (out.set /\ out.val = B)
              /\ \E d \in bdevs : /\ d.name = B
                                  /\ d.cache = LinkNode(S_sys_fs_bcache \o log[4].value)

C13_Witness ==
    /\ op = "bcache_create"
    /\ pc = "done"
    /\ ret = "TRUE"
    /\ out.set
    /\ out.val = BcacheName(0)
    /\ log[4].path = AttachPath(BcacheName(0))

\* C14: when bcache/cache is readable but is not a symlink, bcache_detach fails
\* with BD_KBD_ERROR_BCACHE_UUID, the kind it gives for a link target without
\* '/', and issues no write.
C14_NotSymlinkKind ==
    (/\ op = "bcache_detach"
     /\ pc = "done"
     /\ Len(log) >= 2
     /\ log[1].kind = "access"
     /\ log[1].res = "ok"
     /\ log[2].kind = "readlink"
     /\ log[2].res = "fail") =>
        /\ ret = "FALSE"
        /\ error.domain = BD_KBD_ERROR
        /\ error.code = "BCACHE_UUID"
        /\ \A k \in LogIdx : log[k].kind # "write"

\* C15: in bcache_destroy every stop write comes after a successful write to
\* bcache/detach, and the cache-set stop goes to /sys/fs/bcache/<u>/stop, u being
\* the UUID that detach wrote and handed back; a destroy whose detach did not
\* succeed has returned failure with the error detach set (NOT_ATTACHED when
\* bcache/cache is not readable) and has issued no stop write.
C15_DetachThenStop ==
    op = "bcache_destroy" =>
        /\ \A k \in LogIdx :
              (IsSetStopWrite(log[k]) \/ IsDevStopWrite(log[k])) =>
                 \E d \in 1..(k - 1) :
                    /\ IsDetachWrite(log[d])
                    /\ log[d].res = "ok"
                    /\ c_set_uuid = log[d].value
                    /\ IsSetStopWrite(log[k]) =>
                          log[k].path = S_sys_fs_bcache \o log[d].value \o S_stop
        /\ (pc = "done" /\ \A d \in LogIdx : ~(IsDetachWrite(log[d]) /\ log[d].res = "ok")) =>
              /\ ret = "FALSE"
              /\ error.code # "none"
              /\ \A k \in LogIdx : ~IsSetStopWrite(log[k]) /\ ~IsDevStopWrite(log[k])
              /\ (log[1].kind = "access" /\ log[1].res = "fail") =>
                    /\ Len(log) = 1
                    /\ error.domain = BD_KBD_ERROR
                    /\ error.code = "BCACHE_NOT_ATTACHED"

C15_Witness ==
    /\ op = "bcache_destroy"
    /\ pc = "done"
    /\ Len(log) = 5
    /\ IsDetachWrite(log[3])
    /\ log[3].res = "ok"
    /\ IsSetStopWrite(log[4])
    /\ log[4].path = S_sys_fs_bcache \o log[3].value \o S_stop
    /\ IsDevStopWrite(log[5])

IsRegisterWrite(e) == e.kind = "write" /\ e.path = S_register

IsAttachWrite(e) ==
    e.kind = "write" /\ HasPrefix(e.path, S_sys_block) /\ HasSuffix(e.path, S_bcache_attach)

\* C16: in bcache_create the tool run, the register write and the attach write
\* each happen at most once and nothing else is written; a failed tool run is
\* the only event of the call; a failed register write is the last event, with
\* no attach write; a failed attach write is the last event, the call returns
\* failure, and the backing device stays registered with no cache attached.
C16_StopsAtFirstFailure ==
    op = "bcache_create" =>
        /\ Cardinality({ k \in LogIdx : log[k].kind = "exec" }) <= 1
        /\ Cardinality({ k \in LogIdx : IsRegisterWrite(log[k]) }) <= 1
        /\ Cardinality({ k \in LogIdx : IsAttachWrite(log[k]) }) <= 1
        /\ \A k \in LogIdx :
              /\ log[k].kind = "write" => IsRegisterWrite(log[k]) \/ IsAttachWrite(log[k])
              /\ (log[k].kind = "exec" /\ log[k].res # "ok") =>
                    /\ Len(log) = 1
                    /\ pc = "done"
                    /\ ret = "FALSE"
              /\ (IsRegisterWrite(log[k]) /\ log[k].res # "ok") =>
                    /\ k = Len(log)
                    /\ pc = "done"
                    /\ ret = "FALSE"
              /\ (IsAttachWrite(log[k]) /\ log[k].res # "ok") =>
                    /\ k = Len(log)
                    /\ pc \in {"bc_after_attach", "done"}
                    /\ pc = "done" => ret = "FALSE"
                    /\ \E d \in bdevs :
                          /\ log[k].path = S_sys_block \o d.name \o S_bcache_attach
                          /\ d.slave = LastComponent(bargs.backing_device)
                          /\ d.cache = AbsentNode

C16_Witness ==
    /\ op = "bcache_create"
    /\ pc = "done"
    /\ ret = "FALSE"
    /\ Len(log) = 4
    /\ IsRegisterWrite(log[2])
    /\ log[2].res = "ok"
    /\ IsAttachWrite(log[4])
    /\ log[4].res # "ok"

\* how many disksize writes the call issued before event k
SizeWritesBefore(k) == Cardinality({ l \in 1..(k - 1) : IsSizeWrite(log[l]) })

\* C17: in zram_create_devices the n-th disksize write goes to zram<n-1> and
\* follows successful disksize writes of all lower indices; a failed disksize
\* write for index i is the last event of the call, which has returned failure
\* with an error message naming i, with the module loaded, the devices below i
\* carrying their sizes and the devices from i on carrying none.
C17_SizeFailureStops ==
    ZCreate =>
        \A k \in LogIdx :
           IsSizeWrite(log[k]) =>
              LET idx == SizeWritesBefore(k)
              IN  /\ idx < zargs.num_devices
                  /\ log[k].path = S_sys_block_zram \o U64Str(idx) \o S_disksize
                  /\ log[k].value = U64Str(zargs.sizes[idx + 1])
                  /\ \A l \in 1..(k - 1) : IsSizeWrite(log[l]) => log[l].res = "ok"
                  /\ log[k].res # "ok" =>
                        /\ k = Len(log)
                        /\ pc = "done"
                        /\ ret = "FALSE"
                        /\ error.code # "none"
                        /\ error.msg[1] = Piece("Failed to set size for /dev/zram: ",
                                                <<U64Str(idx)>>)
                        /\ zramLoaded
                        /\ Len(zramDev) = zargs.num_devices
                        /\ \A j \in 0..(zargs.num_devices - 1) :
                              zramDev[j + 1].disksize =
                                 IF j < idx THEN zargs.sizes[j + 1] ELSE 0

C17_Witness ==
    /\ ZCreate
    /\ pc = "done"
    /\ ret = "FALSE"
    /\ zargs.num_devices = 2
    /\ Len(log) >= 3
    /\ log[Len(log)].path = S_sys_block_zram \o U64Str(1) \o S_disksize
    /\ log[Len(log)].res # "ok"
    /\ zramDev[1].disksize = zargs.sizes[1]
    /\ zramDev[2].disksize = 0

\* the attempts of a zram_create_devices call so far are within its limits
ZAttemptsBounded ==
    ZCreate =>
        /\ Cardinality({ k \in LogIdx : log[k].kind = "load" }) <= 2
        /\ Cardinality({ k \in LogIdx : log[k].kind = "unload" }) <= 1
        /\ Len(log) <= 3 + 2 * zargs.num_devices
        /\ \A k \in LogIdx :
              /\ (log[k].kind = "load" /\ k > 1) =>
                    /\ k = 3
                    /\ log[1].kind = "load"
                    /\ log[1].res # "ok"
                    /\ log[2].kind = "unload"
                    /\ log[2].res = "ok"
              /\ (log[k].kind = "load" /\ k > 1 /\ log[k].res # "ok") =>
                    /\ Len(log) = 3
                    /\ pc = "done"
                    /\ ret = "FALSE"
                    /\ error.code # "none"
                    /\ ~zramLoaded

\* C18: every zram_create_devices call returns, having made at most two load
\* attempts and at most one unload attempt; a second load is made only after a
\* failed first load and a successful unload, and when it fails it is the last
\* event of the call, which has returned failure with the module unloaded.
C18_Terminates ==
    /\ [] ZAttemptsBounded
    /\ (ZCreate /\ pc # "done") ~> (ZCreate /\ pc = "done")

C18_Witness ==
    /\ ZCreate
    /\ pc = "done"
    /\ ret = "FALSE"
    /\ Len(log) = 3
    /\ log[2].kind = "unload"
    /\ log[3].kind = "load"
    /\ log[3].res # "ok"
    /\ entry.loaded
    /\ ~zramLoaded

\* the device name inside /sys/block/<name><attr>
DeviceIn(path, attr) == SubSeq(path, Len(S_sys_block) + 1, Len(path) - Len(attr))

\* C19: in bcache_destroy, whatever the input string, the device name in the
\* bcache/cache and bcache/detach paths of the detach step is the device name in
\* the path of the final bcache/stop write.
C19_SingleDevice ==
    op = "bcache_destroy" =>
        \A k \in LogIdx, l \in LogIdx :
           IsDevStopWrite(log[l]) =>
              /\ log[k].kind = "access" =>
                    DeviceIn(log[k].path, S_bcache_cache) = DeviceIn(log[l].path, S_bcache_stop)
              /\ IsDetachWrite(log[k]) =>
                    DeviceIn(log[k].path, S_bcache_detach) = DeviceIn(log[l].path, S_bcache_stop)

====
